---- MODULE Spec2Model ----
(***************************************************************************)
(* Dragon-boat weight balance (src/app.py): the roster loader              *)
(* load_paddlers, the balance calculator compute_balance and the request   *)
(* handler index, as one state machine.                                    *)
(*                                                                         *)
(* Text is a sequence of one-character strings, so that strip, replace,    *)
(* float() and int() are computed character by character.  A float is a    *)
(* record: a finite value counted in tenths of a kilogram (exact decimal   *)
(* arithmetic; binary rounding error is not modelled), or not-a-number.    *)
(***************************************************************************)
EXTENDS Integers, Sequences, FiniteSets, TLC

\* ------------------------------------------------------------------ bounds
\* Rows the roster file holds at most.
MaxRows == 2
\* Seat fields a request fills in at most (the others are absent).
MaxSeated == 1

\* ------------------------------------------------------------------ text
\* Python's None, as a field value that is no text (texts hold single characters).
None == <<"None">>

Digits == {"0", "1", "2", "3", "4", "5", "6", "7", "8", "9"}

DigitVal(c) ==
  CASE c = "0" -> 0 [] c = "1" -> 1 [] c = "2" -> 2 [] c = "3" -> 3 [] c = "4" -> 4
    [] c = "5" -> 5 [] c = "6" -> 6 [] c = "7" -> 7 [] c = "8" -> 8 [] c = "9" -> 9

IsSpace(c) == c \in {" ", "\t"}

RECURSIVE LStrip(_)
LStrip(s) == IF s # <<>> /\ IsSpace(Head(s)) THEN LStrip(Tail(s)) ELSE s

RECURSIVE RStrip(_)
RStrip(s) ==
  IF s # <<>> /\ IsSpace(s[Len(s)]) THEN RStrip(SubSeq(s, 1, Len(s) - 1)) ELSE s

\* str.strip()
Strip(s) == RStrip(LStrip(s))

\* str.replace(",", ".")
ReplaceComma(s) == [i \in 1..Len(s) |-> IF s[i] = "," THEN "." ELSE s[i]]

\* `x or ""` for a field that may be None
OrEmpty(f) == IF f = None THEN <<>> ELSE f

AllDigits(s) == \A i \in 1..Len(s) : s[i] \in Digits

RECURSIVE DigitsVal(_)
DigitsVal(s) ==
  IF s = <<>> THEN 0 ELSE 10 * DigitsVal(SubSeq(s, 1, Len(s) - 1)) + DigitVal(s[Len(s)])

\* ------------------------------------------------------------------ floats
Num(n) == [k |-> "num", v |-> n]
NaN == [k |-> "nan", v |-> 0]
IsNaN(x) == x.k = "nan"

\* float + float
FAdd(a, b) == IF IsNaN(a) \/ IsNaN(b) THEN NaN ELSE Num(a.v + b.v)
\* float > 0, float == float (both False on nan)
FPositive(a) == ~IsNaN(a) /\ a.v > 0
FEq(a, b) == ~IsNaN(a) /\ ~IsNaN(b) /\ a.v = b.v

RECURSIVE FSum(_)
\* sum(list), left to right from 0
FSum(ws) ==
  IF ws = <<>> THEN Num(0) ELSE FAdd(FSum(SubSeq(ws, 1, Len(ws) - 1)), ws[Len(ws)])

Raised(exc) == [ok |-> FALSE, exc |-> exc]
Value(x) == [ok |-> TRUE, val |-> x]

Sign(s) == IF s # <<>> /\ s[1] = "-" THEN -1 ELSE 1
Unsigned(s) == IF s # <<>> /\ s[1] \in {"-", "+"} THEN Tail(s) ELSE s
DotAt(s) == IF \E i \in 1..Len(s) : s[i] = "."
            THEN CHOOSE i \in 1..Len(s) : s[i] = "." /\ \A j \in 1..(i - 1) : s[j] # "."
            ELSE Len(s) + 1
IntPart(s) == SubSeq(s, 1, DotAt(s) - 1)
FracPart(s) == SubSeq(s, DotAt(s) + 1, Len(s))

\* float(text) over the characters the modelled inputs use (digits, sign, '.',
\* letters, blanks): [sign] digits [. digits] with at least one digit, or
\* [sign] nan; anything else raises ValueError.  The fraction holds at most
\* one digit in the modelled inputs, so the value is exact in tenths.
ParseFloat(s) ==
  LET u == Unsigned(s)
  IN  IF u = <<"n", "a", "n">> THEN Value(NaN)
      ELSE IF /\ AllDigits(IntPart(u)) /\ AllDigits(FracPart(u))
              /\ Len(IntPart(u)) + Len(FracPart(u)) > 0
           THEN Value(Num(Sign(s) * (10 * DigitsVal(IntPart(u))
                  + (IF FracPart(u) = <<>> THEN 0 ELSE DigitVal(FracPart(u)[1])))))
           ELSE Raised("ValueError")

\* int(text): [sign] digits, else ValueError
ParseInt(s) ==
  LET u == Unsigned(Strip(s))
  IN  IF u # <<>> /\ AllDigits(u) THEN Value(Sign(Strip(s)) * DigitsVal(u))
      ELSE Raised("ValueError")

\* ------------------------------------------------------------------ roster
\* dict.get(name, 0.0)
LookupDefaultOne(roster, name) == IF name \in DOMAIN roster THEN roster[name] ELSE Num(10)
Lookup(roster, name) == IF name \in DOMAIN roster THEN roster[name] ELSE Num(0)

\* data[name] = w
Store(roster, name, w) ==
  [k \in DOMAIN roster \cup {name} |-> IF k = name THEN w ELSE roster[k]]

\* data = {"": 0.0}
EmptyRoster == [k \in {<<>>} |-> Num(0)]

RowName(r) == Strip(OrEmpty(r.nombre))
RowWeight(r) == Strip(OrEmpty(r.peso))

\* One pass of the loop body of load_paddlers over a row of the DictReader.
ProcessRowKeepsEmptyWeight(roster, r) ==
  LET p == ParseFloat(ReplaceComma(RowWeight(r)))
  IN  IF p.ok THEN Store(roster, RowName(r), p.val) ELSE roster
ProcessRowZeroOnError(roster, r) ==
  IF RowName(r) = <<>> THEN Store(roster, <<>>, Num(0))
  ELSE LET p == ParseFloat(ReplaceComma(RowWeight(r)))
       IN  IF p.ok THEN Store(roster, RowName(r), p.val)
           ELSE Store(roster, RowName(r), Num(0))
ProcessRow(roster, r) ==
  IF RowName(r) = <<>> THEN Store(roster, <<>>, Num(0))
  ELSE LET p == ParseFloat(ReplaceComma(RowWeight(r)))
       IN  IF p.ok THEN Store(roster, RowName(r), p.val) ELSE roster

\* What open() and the try/except around it make of the roster file: the
\* loop is entered, FileNotFoundError is caught (the function returns data
\* as it stands), any other OSError leaves load_paddlers.
AfterOpenNoHandler(src) ==
  CASE src = "present" -> "rows" [] src = "absent" -> "crashed" [] src = "denied" -> "crashed"
AfterOpen(src) ==
  CASE src = "present" -> "rows" [] src = "absent" -> "return" [] src = "denied" -> "crashed"

\* ------------------------------------------------------------------ balance
LAYOUTS == (10 :> [benches |-> 5]) @@ (20 :> [benches |-> 10])

\* f"L{i}", f"R{i}"
SeatKey(side, i) == <<side, i>>

\* seat_names.get(key, "") or ""
SeatName(seat_names, key) ==
  IF key \in DOMAIN seat_names THEN OrEmpty(seat_names[key]) ELSE <<>>

\* round(n / d, 0) for d > 0, ties to even
RoundDiv(n, d) ==
  LET q == n \div d
      r == n % d
  IN  IF 2 * r < d THEN q
      ELSE IF 2 * r > d THEN q + 1
      ELSE IF q % 2 = 0 THEN q ELSE q + 1

\* pct(a, b): round((a / b * 100.0) if b > 0 else 0.0, 2), in hundredths of
\* a percent (weights cancel their unit in a / b).
Pct(a, b) ==
  IF FPositive(b)
  THEN IF IsNaN(a) THEN NaN ELSE Num(RoundDiv(a.v * 10000, b.v))
  ELSE Num(0)

\* benches // 2
HalfCeil(benches) == (benches + 1) \div 2
Half(benches) == benches \div 2

\* compute_balance(boat_size, seat_names, drummer_w, helm_w), reading the
\* module-level roster.
ComputeBalance(roster, boat_size, seat_names, drummer_w, helm_w) ==
  IF boat_size \notin DOMAIN LAYOUTS THEN Raised("KeyError")
  ELSE
    LET benches == LAYOUTS[boat_size].benches
        l_name(i) == SeatName(seat_names, SeatKey("L", i))
        r_name(i) == SeatName(seat_names, SeatKey("R", i))
        left_w == [i \in 1..benches |-> Lookup(roster, l_name(i))]
        right_w == [i \in 1..benches |-> Lookup(roster, r_name(i))]
        assignments == [i \in 1..benches |->
                          [bench |-> i, L_name |-> l_name(i), L_w |-> left_w[i],
                           R_name |-> r_name(i), R_w |-> right_w[i]]]
        total_left == FSum(left_w)
        total_right == FSum(right_w)
        total_all == FAdd(FAdd(FAdd(total_left, total_right), drummer_w), helm_w)
        half == Half(benches)
        bow_w == FAdd(FAdd(drummer_w, FSum(SubSeq(left_w, 1, half))),
                      FSum(SubSeq(right_w, 1, half)))
        stern_w == FAdd(FAdd(helm_w, FSum(SubSeq(left_w, half + 1, benches))),
                        FSum(SubSeq(right_w, half + 1, benches)))
    IN  Value([assignments |-> assignments,
               totals |-> [left |-> total_left, right |-> total_right,
                           bow |-> bow_w, stern |-> stern_w,
                           total |-> total_all, drummer |-> drummer_w, helm |-> helm_w],
               percents |-> [left |-> Pct(total_left, FAdd(total_left, total_right)),
                             right |-> Pct(total_right, FAdd(total_left, total_right)),
                             bow |-> Pct(bow_w, FAdd(bow_w, stern_w)),
                             stern |-> Pct(stern_w, FAdd(bow_w, stern_w))]])

\* ------------------------------------------------------------------ index
\* A field is truthy when it was sent and is not empty.
Truthy(f) == f # None /\ f # <<>>

\* int(request.form.get("boat_size") or request.args.get("boat_size") or 10)
BoatSize(req) ==
  IF Truthy(req.form_boat) THEN ParseInt(req.form_boat)
  ELSE IF Truthy(req.args_boat) THEN ParseInt(req.args_boat)
  ELSE Value(10)

\* request.form.get(key, "") for a seat field; a named field that was not
\* sent is None in the request record, and OrEmpty gives its default.
FormGet(form, key) == IF key \in DOMAIN form THEN form[key] ELSE <<>>

\* An exception nothing in index catches leaves the handler.
Uncaught(exc) == [kind |-> "uncaught", exc |-> exc]

NoResult == [ok |-> FALSE, exc |-> "None"]

\* index(): what the handler answers to a request, given the roster.
IndexResponse(roster, req) ==
  LET b == BoatSize(req)
  IN  IF ~b.ok THEN Uncaught(b.exc)
      ELSE IF b.val \notin DOMAIN LAYOUTS THEN Uncaught("KeyError")
      ELSE
        LET benches == LAYOUTS[b.val].benches
            drummer == OrEmpty(req.drummer)
            helm == OrEmpty(req.helm)
            seat_names == [k \in {"L", "R"} \X (1..benches) |-> FormGet(req.seats, k)]
            page(result) == [kind |-> "page", boat_size |-> b.val, benches |-> benches,
                             drummer |-> drummer, helm |-> helm, weights |-> seat_names,
                             result |-> result]
        IN  IF req.method = "POST"
            THEN LET r == ComputeBalance(roster, b.val, seat_names,
                                         Lookup(roster, drummer), Lookup(roster, helm))
                 IN  IF ~r.ok THEN Uncaught(r.exc)
                     ELSE IF req.action = <<"p", "d", "f">>
                          THEN [kind |-> "pdf", boat_size |-> b.val, benches |-> benches,
                                drummer |-> drummer, helm |-> helm, result |-> r]
                          ELSE page(r)
            ELSE page(NoResult)

\* index() reads PADDLERS and never assigns to it or to its entries.
IndexRosterForgetsDrummer(roster, req) ==
  [k \in DOMAIN roster \ {OrEmpty(req.drummer)} |-> roster[k]]
IndexRoster(roster, req) == roster

\* ------------------------------------------------------------------ inputs
Ana == <<"a">>
Bob == <<"b">>
Zoe == <<"z">>

Sources == {"present", "absent", "denied"}
RowNames == {None, <<>>, <<" ">>, Ana, <<" ", "a", " ">>, Bob}
RowWeights == {None, <<"6", "0">>, <<" ", "7", "0", ",", "5">>, <<"x">>, <<"-", "5">>,
               <<"n", "a", "n">>, <<"8", "0", ".", "5", ".">>}
Rows == [nombre : RowNames, peso : RowWeights]
NoRow == [nombre |-> None, peso |-> None]

SeatKeys == {"L", "R"} \X (1..10)
NoSeats == [k \in {} |-> <<>>]

RECURSIVE SeatMaps(_, _)
\* The seat mappings that give at most n seats a value drawn from names.
SeatMaps(n, names) ==
  IF n = 0 THEN {NoSeats}
  ELSE LET less == SeatMaps(n - 1, names)
       IN  less \cup {Store(m, k, v) : m \in less, k \in SeatKeys, v \in names}

SeatFields == SeatMaps(MaxSeated, {Ana, Bob, Zoe})
SeatDicts == SeatMaps(MaxSeated, {None, Ana, Zoe})

Pdf == <<"p", "d", "f">>
Ten == <<"1", "0">>
Twenty == <<"2", "0">>
Fifteen == <<"1", "5">>

\* GET: no form; the boat size may come in the query string.
GetRequests ==
  [method : {"GET"}, form_boat : {None}, args_boat : {None, Twenty, Fifteen},
   drummer : {None}, helm : {None}, action : {None}, seats : {NoSeats}]

\* POST with the form of index.html: compute and display, compute and
\* export, a boat size the form does not offer, a form without boat size.
PostRequests ==
  [method : {"POST"}, form_boat : {Ten, Twenty}, args_boat : {None},
   drummer : {Ana, Zoe}, helm : {None, Bob}, action : {<<"c", "a", "l", "c">>},
   seats : SeatFields]
  \cup
  [method : {"POST"}, form_boat : {Ten}, args_boat : {None},
   drummer : {<<>>}, helm : {Bob}, action : {Pdf}, seats : SeatFields]
  \cup
  [method : {"POST"}, form_boat : {Fifteen, <<"x">>}, args_boat : {None},
   drummer : {Ana}, helm : {<<>>}, action : {None}, seats : {NoSeats}]
  \cup
  [method : {"POST"}, form_boat : {None, <<>>}, args_boat : {None, Twenty},
   drummer : {<<>>}, helm : {<<>>}, action : {None}, seats : SeatMaps(1, {Ana})]

\* Direct calls of compute_balance, with drummer and helm weights as its
\* callers resolve them: non-negative numbers.
Calls ==
  [boat_size : {10, 20}, seat_names : SeatDicts,
   drummer_w : {Num(555)}, helm_w : {Num(0), Num(720)}]
  \cup
  [boat_size : {15}, seat_names : SeatDicts, drummer_w : {Num(0)}, helm_w : {Num(0)}]

\* ------------------------------------------------------------------ state
VARIABLES
  pc,        \* "import" | "rows" | "serving" | "answered" | "crashed"
  source,    \* what open("paddlers.csv") finds
  data,      \* load_paddlers: the local dict
  row,       \* load_paddlers: the loop variable
  seen,      \* the rows the reader has yielded so far
  PADDLERS,  \* the module-level roster
  request,   \* the request being answered
  response   \* its answer

vars == <<pc, source, data, row, seen, PADDLERS, request, response>>

NoRequest == [kind |-> "none"]
NoResponse == [kind |-> "none"]

Init ==
  /\ pc = "import"
  /\ source \in Sources
  /\ data = <<>>
  /\ row = NoRow
  /\ seen = <<>>
  /\ PADDLERS = <<>>
  /\ request = NoRequest
  /\ response = NoResponse

\* load_paddlers, up to the first row: data = {"": 0.0}, open().
OpenFile ==
  /\ pc = "import"
  /\ data' = EmptyRoster
  /\ pc' = IF AfterOpen(source) = "return" THEN "serving" ELSE AfterOpen(source)
  /\ PADDLERS' = IF AfterOpen(source) = "return" THEN data' ELSE PADDLERS
  /\ UNCHANGED <<source, row, seen, request, response>>

\* for row in reader: one row.
ReadRow ==
  /\ pc = "rows"
  /\ Len(seen) < MaxRows
  /\ \E r \in Rows :
       /\ row' = r
       /\ seen' = Append(seen, r)
       /\ data' = ProcessRow(data, r)
  /\ UNCHANGED <<pc, source, PADDLERS, request, response>>

\* for row in reader: the file cannot be decoded (UnicodeDecodeError is
\* raised by the iteration, outside the inner try).
ReadFails ==
  /\ pc = "rows"
  /\ pc' = "crashed"
  /\ UNCHANGED <<source, data, row, seen, PADDLERS, request, response>>

\* The reader is exhausted: return data; PADDLERS = load_paddlers().
EndOfFile ==
  /\ pc = "rows"
  /\ pc' = "serving"
  /\ PADDLERS' = data
  /\ row' = NoRow
  /\ seen' = <<>>
  /\ UNCHANGED <<source, data, request, response>>

\* One request handled by index().
Index ==
  /\ pc = "serving"
  /\ \E req \in GetRequests \cup PostRequests :
       /\ request' = [kind |-> "index", req |-> req]
       /\ response' = IndexResponse(PADDLERS, req)
       /\ PADDLERS' = IndexRoster(PADDLERS, req)
  /\ pc' = "answered"
  /\ UNCHANGED <<source, data, row, seen>>

\* One direct call of compute_balance by code that imports the module.
Call ==
  /\ pc = "serving"
  /\ \E c \in Calls :
       /\ request' = [kind |-> "call", req |-> c]
       /\ response' = [kind |-> "returned",
                       result |-> ComputeBalance(PADDLERS, c.boat_size, c.seat_names,
                                                 c.drummer_w, c.helm_w)]
  /\ pc' = "answered"
  /\ UNCHANGED <<source, data, row, seen, PADDLERS>>

\* The answer has gone out; the handler's locals are gone with it.
Answered ==
  /\ pc = "answered"
  /\ pc' = "serving"
  /\ request' = NoRequest
  /\ response' = NoResponse
  /\ UNCHANGED <<source, data, row, seen, PADDLERS>>

Next == OpenFile \/ ReadRow \/ ReadFails \/ EndOfFile \/ Index \/ Call \/ Answered

Spec == Init /\ [][Next]_vars

\* ------------------------------------------------------------------ claims
Loaded == pc \in {"rows", "serving", "answered"}
HasResult == pc = "answered" /\ response.kind \in {"page", "pdf", "returned"}
               /\ response.result.ok
Totals == response.result.val.totals
Percents == response.result.val.percents
Assignments == response.result.val.assignments

IsIndex == pc = "answered" /\ request.kind = "index"
IsCall == pc = "answered" /\ request.kind = "call"
\* The boat size the request asks for is a key of the layout table.
Supported ==
  \/ IsCall /\ request.req.boat_size \in DOMAIN LAYOUTS
  \/ IsIndex /\ BoatSize(request.req).ok /\ BoatSize(request.req).val \in DOMAIN LAYOUTS
Unsupported ==
  \/ IsCall /\ request.req.boat_size \notin DOMAIN LAYOUTS
  \/ IsIndex /\ BoatSize(request.req).ok /\ BoatSize(request.req).val \notin DOMAIN LAYOUTS

\* C1: the four parts left, right, drummer, helm add up to the total, and so
\* do bow and stern (float equality, as a caller would test it).
C1_TotalsAddUp ==
  HasResult =>
    /\ FEq(FAdd(FAdd(FAdd(Totals.left, Totals.right), Totals.drummer), Totals.helm),
           Totals.total)
    /\ FEq(FAdd(Totals.bow, Totals.stern), Totals.total)

\* C2: a boat size outside the layout table is answered as a rejected
\* request: no exception leaves index.
C2_UnsupportedSizeRejected ==
  (IsIndex /\ Unsupported) => response.kind # "uncaught"

\* The seats of a direct call whose names the roster knows.
KnownSeats(seat_names) ==
  LET keep == {k \in DOMAIN seat_names :
                 OrEmpty(seat_names[k]) \in DOMAIN PADDLERS \ {<<>>}}
  IN  [k \in keep |-> seat_names[k]]

\* C3: for a supported boat size a result is returned, and a seat that is
\* missing, empty or names nobody in the roster weighs 0 (so does such a
\* drummer or helm): the totals are those of the same request without it.
C3_UnknownSeatsWeighNothing ==
  Supported =>
    /\ response.kind # "uncaught"
    /\ (IsCall \/ request.req.method = "POST") => HasResult
    /\ HasResult =>
         \A i \in DOMAIN Assignments :
           /\ Assignments[i].L_name \notin DOMAIN PADDLERS => Assignments[i].L_w = Num(0)
           /\ Assignments[i].R_name \notin DOMAIN PADDLERS => Assignments[i].R_w = Num(0)
           /\ Assignments[i].L_name = <<>> => Assignments[i].L_w = Num(0)
           /\ Assignments[i].R_name = <<>> => Assignments[i].R_w = Num(0)
    /\ (IsIndex /\ HasResult) =>
         /\ response.drummer \notin DOMAIN PADDLERS => Totals.drummer = Num(0)
         /\ response.helm \notin DOMAIN PADDLERS => Totals.helm = Num(0)
    /\ IsCall =>
         LET c == request.req
             r == ComputeBalance(PADDLERS, c.boat_size, KnownSeats(c.seat_names),
                                 c.drummer_w, c.helm_w)
         IN  /\ r.val.totals = Totals
             /\ r.val.percents = Percents

\* C3 witness: a direct call that seats an unknown name and leaves every
\* other seat key out has returned the drummer and helm weights as total.
C3_Witness ==
  /\ IsCall /\ HasResult
  /\ \E k \in DOMAIN request.req.seat_names : request.req.seat_names[k] = Zoe
  /\ request.req.drummer_w = Num(555)
  /\ request.req.helm_w = Num(720)
  /\ Totals.total = Num(1275)
  /\ Totals.left = Num(0) /\ Totals.right = Num(0)

InRange(p) == ~IsNaN(p) /\ p.v >= 0 /\ p.v <= 10000

\* C4: each percentage lies in [0, 100] and is 0 when its denominator is 0.
C4_PercentsInRange ==
  HasResult =>
    /\ InRange(Percents.left) /\ InRange(Percents.right)
    /\ InRange(Percents.bow) /\ InRange(Percents.stern)
    /\ FAdd(Totals.left, Totals.right) = Num(0) =>
         Percents.left = Num(0) /\ Percents.right = Num(0)
    /\ FAdd(Totals.bow, Totals.stern) = Num(0) =>
         Percents.bow = Num(0) /\ Percents.stern = Num(0)

RECURSIVE BenchSum(_, _)
\* The left and right weights of the benches in the set, bench by bench.
BenchSum(rows, benches) ==
  IF benches = {} THEN Num(0)
  ELSE LET i == CHOOSE j \in benches : TRUE
       IN  FAdd(BenchSum(rows, benches \ {i}), FAdd(rows[i].L_w, rows[i].R_w))

\* C5: bow is the drummer plus benches 1..floor(N/2), stern the helm plus the
\* benches after them; with 5 benches a 60 kg paddler alone on L1 gives
\* bow = 60, stern = 0 and a bow percentage of 100.
C5_BowSternSplit ==
  HasResult =>
    LET N == Len(Assignments)
        front == {i \in 1..N : 2 * i <= N}
    IN  /\ Totals.bow = FAdd(Totals.drummer, BenchSum(Assignments, front))
        /\ Totals.stern = FAdd(Totals.helm, BenchSum(Assignments, (1..N) \ front))
        /\ N = 5 => front = {1, 2}
        /\ ( /\ N = 5
             /\ Totals.drummer = Num(0) /\ Totals.helm = Num(0)
             /\ Assignments[1].L_w = Num(600)
             /\ \A i \in 1..N : Assignments[i].R_w = Num(0)
             /\ \A i \in 2..N : Assignments[i].L_w = Num(0) )
           => /\ Totals.bow = Num(600) /\ Totals.stern = Num(0)
              /\ Percents.bow = Num(10000)

\* C5 witness: boat size 10, the 60 kg paddler on L1 and nobody else aboard.
C5_Witness ==
  /\ IsIndex /\ HasResult
  /\ Len(Assignments) = 5
  /\ Ana \in DOMAIN PADDLERS /\ PADDLERS[Ana] = Num(600)
  /\ Assignments[1].L_name = Ana
  /\ Totals.total = Num(600)
  /\ Totals.bow = Num(600) /\ Totals.stern = Num(0)
  /\ Percents.bow = Num(10000) /\ Percents.left = Num(10000)

Malformed(r) == RowName(r) # <<>> /\ ~ParseFloat(ReplaceComma(RowWeight(r))).ok
WellFormed(r) == RowName(r) # <<>> /\ ParseFloat(ReplaceComma(RowWeight(r))).ok

\* The weight of the last well-formed row of that name, 0 when there is none.
LastParsed(rows, name) ==
  LET at == {i \in 1..Len(rows) : WellFormed(rows[i]) /\ RowName(rows[i]) = name}
  IN  IF at = {} THEN Num(0)
      ELSE LET i == CHOOSE j \in at : \A l \in at : l <= j
           IN  ParseFloat(ReplaceComma(RowWeight(rows[i]))).val

\* C6 as stated: after a row with a malformed weight, a lookup of its name
\* returns 0.
C6_MalformedNameLooksUpZero ==
  (pc = "rows" /\ seen # <<>> /\ Malformed(row)) => Lookup(data, RowName(row)) = Num(0)

\* C6 amended: a row with a malformed weight is skipped entirely, so a lookup
\* of its name returns what the rows with a parseable weight make it: the
\* weight of the last such row of that name, and 0 when there is none.
C6_MalformedRowSkipped ==
  pc = "rows" =>
    \A i \in 1..Len(seen) :
      Malformed(seen[i]) =>
        Lookup(data, RowName(seen[i])) = LastParsed(seen, RowName(seen[i]))

\* C6 witness: the row just read is malformed, its name is not in the roster
\* and looks up as 0.
C6_Witness ==
  /\ pc = "rows" /\ seen # <<>> /\ Malformed(row)
  /\ RowName(row) \notin DOMAIN data
  /\ Lookup(data, RowName(row)) = Num(0)
  /\ data # EmptyRoster

\* C7: every weight of the roster is a non-negative real number.
C7_WeightsNonNegative ==
  Loaded => \A n \in DOMAIN data : ~IsNaN(data[n]) /\ data[n].v >= 0

\* C8: after every prefix of rows the roster holds the empty name at 0.
C8_EmptyNamePinned ==
  /\ Loaded => (<<>> \in DOMAIN data /\ data[<<>>] = Num(0))
  /\ pc \in {"serving", "answered"} => (<<>> \in DOMAIN PADDLERS /\ PADDLERS[<<>>] = Num(0))

\* C8 witness: the row just read has a blank name and a weight that parses
\* to 60.
C8_Witness ==
  /\ pc = "rows" /\ seen # <<>>
  /\ row.nombre = <<" ">>
  /\ ParseFloat(ReplaceComma(RowWeight(row))) = Value(Num(600))
  /\ data[<<>>] = Num(0)

\* C9 as stated: with the roster file absent or unreadable the load does not
\* fail and the roster holds the empty name alone.
C9_AbsentOrUnreadableLoads ==
  (source \in {"absent", "denied"} /\ pc # "import") =>
    (pc # "crashed" /\ PADDLERS = EmptyRoster)

\* C9 amended: with the roster file absent (open raises FileNotFoundError)
\* the load does not fail and the roster holds the empty name alone.
C9_AbsentSourceLoadsEmpty ==
  (source = "absent" /\ pc # "import") =>
    (pc \in {"serving", "answered"} /\ PADDLERS = EmptyRoster)

\* C9 witness: the file was absent and the application serves.
C9_Witness == source = "absent" /\ pc = "serving" /\ PADDLERS = EmptyRoster

\* What a request is answered, computed from a given roster.
AnswerFrom(roster, rq) ==
  IF rq.kind = "index" THEN IndexResponse(roster, rq.req)
  ELSE [kind |-> "returned",
        result |-> ComputeBalance(roster, rq.req.boat_size, rq.req.seat_names,
                                  rq.req.drummer_w, rq.req.helm_w)]

\* C10: once loaded, no request changes the roster, and every answer is the
\* one its inputs get from the roster as load_paddlers returned it, whatever
\* requests came before.
C10_RosterReadOnly ==
  [][(pc \in {"serving", "answered"}) =>
       (PADDLERS' = PADDLERS /\ PADDLERS' = data
          /\ (pc' = "answered" => response' = AnswerFrom(data, request')))]_vars

\* C10 witness: a compute-and-display request has been answered from a roster
\* that knows its drummer.
C10_Witness ==
  /\ IsIndex /\ HasResult
  /\ request.req.drummer = Ana
  /\ Ana \in DOMAIN PADDLERS
  /\ PADDLERS = data
  /\ Totals.drummer = PADDLERS[Ana]

====
